---- MODULE Spec2Model ----
(***************************************************************************)
(* A model of the diakonos service supervisor: the service registry        *)
(* (manager.rs), the per-service record and its lifecycle (service.rs),    *)
(* the unit model (unit.rs) and the request dispatcher (daemon.rs).        *)
(***************************************************************************)
EXTENDS Naturals, Sequences, FiniteSets, TLC

VARIABLES
    disk,       \* the service directory: file stem -> parsed unit file (or "malformed")
    services,   \* ServiceManager.services: name -> Service
    children,   \* the OS children behind the tracked handles: pid -> status
    lock,       \* holder of the registry's writer grant, or "free"
    conn,       \* per connection: the request being handled, or Idle; a Start in
                \* progress also keeps `ran`, the entries its calls so far left Running
    tasks,      \* delayed-restart tasks spawned by supervise and not yet woken: name -> count
    phase,      \* run_daemon: "loading" before load_all_services returns, then "serving"
    resp,       \* the response (or log outcome) produced by the step just taken
    host        \* the machine the daemon is started on: PID file, socket file, the
                \* daemon-start processes and the CLI processes with their positions

vars == <<disk, services, children, lock, conn, tasks, phase, resp, host>>

(***************************************************************************)
(* Bounds of the model.                                                    *)
(***************************************************************************)
\* At most this many delayed-restart tasks of one service are pending at once.
MaxTasks == 2
\* At most this many dependency entries (Requires + Wants) in a whole service directory.
MaxEdges == 3
\* At most this many daemon-start processes are ever launched on the machine.
MaxDaemons == 3
\* At most this many entries in one dependency list of a diamond directory.
MaxDeps == 2

\* File stems that may be present in the service directory.
Names == {"a", "b", "c"}
\* Strings that may appear in Requires / Wants / After lists.
DepStrings == {"a", "b", "c.service", "z"}
\* Connections served concurrently by the accept loop.
Clients == {"c1", "c2"}
\* Service names a request may carry.
ReqNames == Names \cup {"nope"}
\* Process ids the OS hands out: more than the handles that can be tracked (one per
\* name, and one for the fourth service "d" of the diamond directories).
Pids == 1..(Cardinality(Names) + 2)

\* Option::None for a name-valued field (Option<RestartPolicy>).
None == "None"
\* Option<u32> / Option<Arc<Mutex<Child>>>: None.
NoChild == 0
\* Option<T> for list- and string-valued fields: <<>> is None, <<x>> is Some(x).
Some(x) == <<x>>
Idle == [op |-> "idle"]
NoResp == [op |-> "none"]

(***************************************************************************)
(* error.rs: DiakonosError, and Ok(()).                                    *)
(***************************************************************************)
Ok == [kind |-> "Ok", arg |-> ""]
Err(kind, arg) == [kind |-> kind, arg |-> arg]
DependencyCycle == Err("DependencyCycle", "")

(***************************************************************************)
(* unit.rs                                                                 *)
(***************************************************************************)
RestartPolicy == {"always", "on-failure", "no"}

\* str::split_whitespace on the command lines of the model.
split_whitespace(s) ==
    CASE s = "" -> <<>>
      [] s = "  " -> <<>>
      [] s = "/bin/sleep 60" -> <<"/bin/sleep", "60">>
      [] s = "/bin/false" -> <<"/bin/false">>
      [] s = "/nonexistent" -> <<"/nonexistent">>
      [] s = "/bin/true" -> <<"/bin/true">>
      [] s = "/opt/flaky run" -> <<"/opt/flaky", "run">>
      [] OTHER -> <<s>>

\* Executables of the host whose spawn always succeeds, and those whose spawn may
\* fail at one time and succeed at another (resource limits, a binary being replaced).
\* Any other executable does not exist: its spawn fails.
Executables == {"/bin/sleep", "/bin/false", "/bin/true"}
Transient == {"/opt/flaky"}

UnitFile(requires, wants, after, exec_start, exec_stop, restart) ==
    [requires |-> requires, wants |-> wants, after |-> after,
     exec_start |-> exec_start, exec_stop |-> exec_stop, restart |-> restart]

\* Option<Vec<String>> read as a list: `if let Some(l) = ... { deps.extend(l) }`.
OptList(o) == IF o = <<>> THEN <<>> ELSE o[1]

\* dependencies as it would be if the After list were extended into it as well.
dependencies_with_after(unit) ==
    OptList(unit.requires) \o OptList(unit.wants) \o OptList(unit.after)

\* UnitFile::dependencies: requires then wants, duplicates kept.
dependencies(unit) == OptList(unit.requires) \o OptList(unit.wants)

\* UnitFile::ordering_dependencies
ordering_dependencies(unit) == OptList(unit.after)

\* str::strip_suffix(".service").unwrap_or(dep)
strip_suffix(dep) ==
    IF \E x \in DepStrings \cup Names : dep = x \o ".service"
    THEN CHOOSE x \in DepStrings \cup Names : dep = x \o ".service"
    ELSE dep

(***************************************************************************)
(* service.rs                                                              *)
(***************************************************************************)
ServiceState == {"Stopped", "Starting", "Running", "Stopping", "Failed"}

\* Service::new
Service_new(unit) ==
    [unit |-> unit, state |-> "Stopped", pid |-> NoChild, process |-> NoChild,
     restart_count |-> 0]

\* Command::spawn for a unit's command line: the results it can have, where `pid`
\* is the id the OS would give the child and NoChild stands for Err.
SpawnResults(unit, pid) ==
    LET parts == split_whitespace(unit.exec_start)
    IN  IF parts = <<>> THEN {NoChild}
        ELSE IF parts[1] \in Executables THEN {pid}
        ELSE IF parts[1] \in Transient THEN {pid, NoChild}
        ELSE {NoChild}

\* Service::start as it would be without its test for Running.
start_ignores_running(svc, child) ==
    LET s1 == [svc EXCEPT !.state = "Starting"]
        parts == split_whitespace(svc.unit.exec_start)
    IN  IF parts = <<>> THEN [svc |-> s1, res |-> Err("StartError", "Empty ExecStart")]
        ELSE IF child = NoChild
             THEN [svc |-> s1, res |-> Err("StartError", "spawn")]
             ELSE [svc |-> [s1 EXCEPT !.pid = child, !.process = child,
                                      !.state = "Running"],
                   res |-> Ok]

\* Service::start; `child` is what Command::spawn returns if it is reached.
\* Returns the record and the Result.
start(svc, child) ==
    IF svc.state = "Running" THEN [svc |-> svc, res |-> Ok]
    ELSE LET s1 == [svc EXCEPT !.state = "Starting"]
             parts == split_whitespace(svc.unit.exec_start)
         IN  IF parts = <<>> THEN [svc |-> s1, res |-> Err("StartError", "Empty ExecStart")]
             ELSE IF child = NoChild
                  THEN [svc |-> s1, res |-> Err("StartError", "spawn")]
                  ELSE [svc |-> [s1 EXCEPT !.pid = child, !.process = child,
                                           !.state = "Running"],
                        res |-> Ok]

\* Service::stop up to its first sleep: the early return and the move to Stopping.
stop_begin(svc) ==
    IF svc.state = "Stopped" THEN svc ELSE [svc EXCEPT !.state = "Stopping"]

\* Service::stop after its sleeps: lines 128-130.
stop_finish(svc) ==
    [svc EXCEPT !.pid = NoChild, !.process = NoChild, !.state = "Stopped"]

\* Child::try_wait on a child in the given OS status.
try_wait(status) ==
    CASE status = "alive" -> "running"
      [] status = "exit_ok" -> "success"
      [] status = "exit_fail" -> "failure"
      [] OTHER -> "error"

\* check_status as it would be if the exit branches forgot `self.pid = None`.
check_status_keeps_pid(svc, probe) ==
    IF svc.process = NoChild THEN svc
    ELSE CASE probe = "success" -> [svc EXCEPT !.state = "Stopped"]
           [] probe = "failure" -> [svc EXCEPT !.state = "Failed"]
           [] probe = "running" -> [svc EXCEPT !.state = "Running"]
           [] OTHER -> [svc EXCEPT !.state = "Failed"]

\* Service::check_status; `probe` is try_wait's answer for the tracked child.
check_status(svc, probe) ==
    IF svc.process = NoChild THEN svc
    ELSE CASE probe = "success" -> [svc EXCEPT !.state = "Stopped", !.pid = NoChild]
           [] probe = "failure" -> [svc EXCEPT !.state = "Failed", !.pid = NoChild]
           [] probe = "running" -> [svc EXCEPT !.state = "Running"]
           [] OTHER -> [svc EXCEPT !.state = "Failed", !.pid = NoChild]

\* should_restart as it would be if Always were handled like OnFailure.
should_restart_only_failed(svc) ==
    LET policy == IF svc.unit.restart = None THEN "no" ELSE svc.unit.restart
    IN  CASE policy = "always" -> svc.state = "Failed"
          [] policy = "on-failure" -> svc.state = "Failed"
          [] OTHER -> FALSE

\* should_restart as it would be if OnFailure were handled like Always.
should_restart_any_exit(svc) ==
    LET policy == IF svc.unit.restart = None THEN "no" ELSE svc.unit.restart
    IN  CASE policy = "always" -> TRUE
          [] policy = "on-failure" -> TRUE
          [] OTHER -> FALSE

\* Service::should_restart
should_restart(svc) ==
    LET policy == IF svc.unit.restart = None THEN "no" ELSE svc.unit.restart
    IN  CASE policy = "always" -> TRUE
          [] policy = "on-failure" -> svc.state = "Failed"
          [] OTHER -> FALSE

(***************************************************************************)
(* manager.rs: the dependency resolver                                     *)
(***************************************************************************)
RECURSIVE resolve_deps_recursive(_, _, _, _)
RECURSIVE resolve_deps_loop(_, _, _, _)

\* The loop as it would be if a dependency missing from the registry were skipped.
resolve_deps_loop_skips_missing(deps, svcs, resolved, visited) ==
    IF deps = <<>> THEN [res |-> Ok, resolved |-> resolved, visited |-> visited]
    ELSE LET dep_name == strip_suffix(Head(deps))
         IN  IF \E i \in 1..Len(resolved) : resolved[i] = dep_name
             THEN resolve_deps_loop(Tail(deps), svcs, resolved, visited)
             ELSE IF dep_name \in DOMAIN svcs
                  THEN LET r == resolve_deps_recursive(dep_name, svcs, resolved, visited)
                       IN  IF r.res # Ok THEN r
                           ELSE resolve_deps_loop(Tail(deps), svcs, r.resolved, r.visited)
                  ELSE resolve_deps_loop(Tail(deps), svcs, resolved, visited)

\* The loop as it would be without the `resolved.contains` test before recursing.
resolve_deps_loop_always_recurses(deps, svcs, resolved, visited) ==
    IF deps = <<>> THEN [res |-> Ok, resolved |-> resolved, visited |-> visited]
    ELSE LET dep_name == strip_suffix(Head(deps))
         IN  IF dep_name \in DOMAIN svcs
             THEN LET r == resolve_deps_recursive(dep_name, svcs, resolved, visited)
                  IN  IF r.res # Ok THEN r
                      ELSE resolve_deps_loop(Tail(deps), svcs, r.resolved, r.visited)
             ELSE [res |-> Err("DependencyNotMet", dep_name),
                   resolved |-> resolved, visited |-> visited]

\* The `for dep in deps` loop of resolve_deps_recursive (lines 162-173).
resolve_deps_loop(deps, svcs, resolved, visited) ==
    IF deps = <<>> THEN [res |-> Ok, resolved |-> resolved, visited |-> visited]
    ELSE LET dep_name == strip_suffix(Head(deps))
         IN  IF \E i \in 1..Len(resolved) : resolved[i] = dep_name
             THEN resolve_deps_loop(Tail(deps), svcs, resolved, visited)
             ELSE IF dep_name \in DOMAIN svcs
                  THEN LET r == resolve_deps_recursive(dep_name, svcs, resolved, visited)
                       IN  IF r.res # Ok THEN r
                           ELSE resolve_deps_loop(Tail(deps), svcs, r.resolved, r.visited)
                  ELSE [res |-> Err("DependencyNotMet", dep_name),
                        resolved |-> resolved, visited |-> visited]

\* resolve_deps_recursive as it would be if it pushed `name` at the front of
\* `resolved`.
resolve_deps_recursive_prepend(name, svcs, resolved, visited) ==
    IF name \in visited
    THEN [res |-> DependencyCycle, resolved |-> resolved, visited |-> visited]
    ELSE LET v1 == visited \cup {name}
             r == IF name \in DOMAIN svcs
                  THEN resolve_deps_loop(dependencies(svcs[name].unit), svcs, resolved, v1)
                  ELSE [res |-> Ok, resolved |-> resolved, visited |-> v1]
         IN  IF r.res # Ok THEN r
             ELSE [res |-> Ok,
                   resolved |-> IF \E i \in 1..Len(r.resolved) : r.resolved[i] = name
                                THEN r.resolved ELSE <<name>> \o r.resolved,
                   visited |-> r.visited]

\* resolve_deps_recursive as it would be if a name already visited were skipped
\* instead of reported as a cycle.
resolve_deps_recursive_revisit(name, svcs, resolved, visited) ==
    IF name \in visited
    THEN [res |-> Ok, resolved |-> resolved, visited |-> visited]
    ELSE LET v1 == visited \cup {name}
             r == IF name \in DOMAIN svcs
                  THEN resolve_deps_loop(dependencies(svcs[name].unit), svcs, resolved, v1)
                  ELSE [res |-> Ok, resolved |-> resolved, visited |-> v1]
         IN  IF r.res # Ok THEN r
             ELSE [res |-> Ok,
                   resolved |-> IF \E i \in 1..Len(r.resolved) : r.resolved[i] = name
                                THEN r.resolved ELSE Append(r.resolved, name),
                   visited |-> r.visited]

\* ServiceManager::resolve_deps_recursive
resolve_deps_recursive(name, svcs, resolved, visited) ==
    IF name \in visited
    THEN [res |-> DependencyCycle, resolved |-> resolved, visited |-> visited]
    ELSE LET v1 == visited \cup {name}
             r == IF name \in DOMAIN svcs
                  THEN resolve_deps_loop(dependencies(svcs[name].unit), svcs, resolved, v1)
                  ELSE [res |-> Ok, resolved |-> resolved, visited |-> v1]
         IN  IF r.res # Ok THEN r
             ELSE [res |-> Ok,
                   resolved |-> IF \E i \in 1..Len(r.resolved) : r.resolved[i] = name
                                THEN r.resolved ELSE Append(r.resolved, name),
                   visited |-> r.visited]

\* ServiceManager::resolve_dependencies
resolve_dependencies(name, svcs) ==
    IF name \notin DOMAIN svcs
    THEN [res |-> Err("ServiceNotFound", name), resolved |-> <<>>]
    ELSE LET r == resolve_deps_recursive(name, svcs, <<>>, {})
         IN  [res |-> r.res, resolved |-> IF r.res = Ok THEN r.resolved ELSE <<>>]

(***************************************************************************)
(* manager.rs: registry operations                                         *)
(***************************************************************************)
\* ServiceManager::load_service against the service directory `dir`.
\* Returns the registry and the Result.
load_service(name, dir, svcs) ==
    IF name \notin DOMAIN dir THEN [svcs |-> svcs, res |-> Err("ServiceNotFound", name)]
    ELSE IF ~dir[name].ok THEN [svcs |-> svcs, res |-> Err("ParseError", name)]
    ELSE IF name \in DOMAIN svcs
         THEN [svcs |-> svcs, res |-> Err("ServiceAlreadyExists", name)]
         ELSE [svcs |-> [n \in DOMAIN svcs \cup {name} |->
                            IF n = name THEN Service_new(dir[name].unit) ELSE svcs[n]],
               res |-> Ok]

\* start_service_internal as it would be if the Result of Service::start were
\* dropped and Ok returned.
start_service_internal_drops_error(name, svcs, child) ==
    IF name \notin DOMAIN svcs THEN [svcs |-> svcs, res |-> Err("ServiceNotFound", name)]
    ELSE IF svcs[name].state = "Running" THEN [svcs |-> svcs, res |-> Ok]
    ELSE LET r == start(svcs[name], child)
         IN  [svcs |-> [svcs EXCEPT ![name] = r.svc], res |-> Ok]

\* ServiceManager::start_service_internal, run under the writer grant.
start_service_internal(name, svcs, child) ==
    IF name \notin DOMAIN svcs THEN [svcs |-> svcs, res |-> Err("ServiceNotFound", name)]
    ELSE IF svcs[name].state = "Running" THEN [svcs |-> svcs, res |-> Ok]
    ELSE LET r == start(svcs[name], child)
         IN  [svcs |-> [svcs EXCEPT ![name] = r.svc], res |-> r.res]

\* get_service_status as it would be if an unknown name were reported as Stopped.
get_service_status_defaults(name, svcs) ==
    IF name \notin DOMAIN svcs THEN [res |-> Ok, state |-> "Stopped"]
    ELSE [res |-> Ok, state |-> svcs[name].state]

\* ServiceManager::get_service_status, run under a read grant.
get_service_status(name, svcs) ==
    IF name \notin DOMAIN svcs
    THEN [res |-> Err("ServiceNotFound", name), state |-> None]
    ELSE [res |-> Ok, state |-> svcs[name].state]

\* list_services as it would be if records that are Stopped were left out.
list_services_skips_stopped(svcs) ==
    LET keys == {n \in DOMAIN svcs : svcs[n].state # "Stopped"}
    IN  {[i \in 1..Cardinality(keys) |-> <<o[i], svcs[o[i]].state>>] :
            o \in {f \in [1..Cardinality(keys) -> keys] :
                      \A i, j \in 1..Cardinality(keys) : f[i] = f[j] => i = j}}

\* ServiceManager::list_services, run under a read grant: the Vec collected from
\* the HashMap's iterator, which visits every entry once in an order of its own.
\* The set of the Vecs it can return.
list_services(svcs) ==
    LET keys == DOMAIN svcs
    IN  {[i \in 1..Cardinality(keys) |-> <<o[i], svcs[o[i]].state>>] :
            o \in {f \in [1..Cardinality(keys) -> keys] :
                      \A i, j \in 1..Cardinality(keys) : f[i] = f[j] => i = j}}

\* ServiceManager::start_service, lines 67-75: the calls it makes, in order:
\* every resolved entry other than `name`, then `name`.
start_order(deps, name) == SelectSeq(deps, LAMBDA d : d # name) \o <<name>>

\* ServiceManager::supervise, one record of one pass (lines 192-218):
\* the record after check_status and whether a delayed restart is spawned.
supervise_one(svc, probe) ==
    LET old_state == svc.state
        new == check_status(svc, probe)
    IN  [svc |-> new,
         restart |-> /\ old_state # new.state
                     /\ new.state \in {"Stopped", "Failed"}
                     /\ should_restart(new)]

(***************************************************************************)
(* The OS side: children and signals                                       *)
(***************************************************************************)
\* The id the OS gives the next spawned child: one no live or unreaped child holds.
FreshPid == CHOOSE p \in Pids : children[p] = "free" /\ \A q \in Pids : children[q] = "free" => p <= q

\* The handles the registry `svcs` holds.
Tracked(svcs) == {svcs[n].process : n \in DOMAIN svcs} \ {NoChild}

\* The children after the registry became `svcs`: a newly stored handle is a live
\* child, a dropped handle's child is no longer this program's concern.
ChildrenAfter(svcs) ==
    [p \in Pids |-> IF p \in Tracked(svcs)
                    THEN IF children[p] = "free" THEN "alive" ELSE children[p]
                    ELSE "free"]

\* Whether Service::stop sleeps (holding the grant): the 2 s wait after a non-empty
\* ExecStop (lines 99-108), the 3 s wait after a delivered SIGTERM (lines 112-118).
\* `sigterm_ok` is the outcome of signal::kill.
stop_sleeps(svc, sigterm_ok) ==
    \/ svc.unit.exec_stop # <<>> /\ split_whitespace(svc.unit.exec_stop[1]) # <<>>
    \/ svc.pid # NoChild /\ sigterm_ok

\* signal::kill(pid, SIGTERM): delivered to a live or unreaped child; a child the
\* program lost track of (its wait fails) may or may not still take the signal.
SigtermOutcomes(svc) ==
    IF svc.pid = NoChild THEN {FALSE}
    ELSE IF children[svc.pid] = "wait_err" THEN {TRUE, FALSE} ELSE {TRUE}

(***************************************************************************)
(* Actions                                                                 *)
(***************************************************************************)
IsIdle(c) == conn[c].op = "idle"

\* run_daemon -> load_all_services -> load_service, one directory entry.
Load(name) ==
    /\ phase = "loading"
    /\ LET r == load_service(name, disk, services)
       IN  /\ services' = r.svcs
           /\ resp' = [op |-> "load", name |-> name, res |-> r.res]
    /\ UNCHANGED <<host, disk, children, lock, conn, tasks, phase>>

\* load_all_services has returned: the supervision task and the listener are started.
DaemonReady ==
    /\ phase = "loading"
    /\ \A n \in DOMAIN disk : disk[n].ok => n \in DOMAIN services
    /\ phase' = "serving"
    /\ resp' = NoResp
    /\ UNCHANGED <<host, disk, services, children, lock, conn, tasks>>

\* Request::Start, up to the end of resolve_dependencies (read grant).
StartRequest(c, name) ==
    /\ phase = "serving" /\ IsIdle(c) /\ lock = "free"
    /\ LET r == resolve_dependencies(name, services)
       IN  IF r.res # Ok
           THEN /\ resp' = [op |-> "start", name |-> name, entry |-> name, res |-> r.res]
                /\ conn' = conn
           ELSE /\ conn' = [conn EXCEPT ![c] =
                              [op |-> "start", name |-> name, order |-> r.resolved,
                               queue |-> start_order(r.resolved, name), ran |-> <<>>]]
                /\ resp' = NoResp
    /\ UNCHANGED <<host, disk, services, children, lock, tasks, phase>>

\* Request::Start, one start_service_internal call of start_service (writer grant).
StartStep(c) ==
    /\ conn[c].op = "start" /\ lock = "free"
    /\ \E child \in SpawnResults(services[Head(conn[c].queue)].unit, FreshPid) :
       LET dep == Head(conn[c].queue)
           r == start_service_internal(dep, services, child)
       IN  /\ services' = r.svcs
           /\ children' = ChildrenAfter(r.svcs)
           /\ IF r.res # Ok \/ Len(conn[c].queue) = 1
              THEN /\ conn' = [conn EXCEPT ![c] = Idle]
                   /\ resp' = [op |-> "start", name |-> conn[c].name, entry |-> dep,
                               res |-> r.res]
              ELSE /\ conn' = [conn EXCEPT ![c].queue = Tail(@),
                                           ![c].ran = IF r.svcs[dep].state = "Running"
                                                      THEN Append(@, dep) ELSE @]
                   /\ resp' = NoResp
    /\ UNCHANGED <<host, disk, lock, tasks, phase>>

\* Request::Stop: stop_service takes the writer grant and runs Service::stop up to
\* its first sleep, or to its end when it does not sleep.
StopRequest(c, name) ==
    /\ phase = "serving" /\ IsIdle(c) /\ lock = "free"
    /\ IF name \notin DOMAIN services
       THEN /\ resp' = [op |-> "stop", name |-> name, res |-> Err("ServiceNotFound", name)]
            /\ UNCHANGED <<services, children, lock, conn>>
       ELSE IF services[name].state = "Stopped"
       THEN /\ services' = [services EXCEPT ![name] = stop_begin(@)]
            /\ resp' = [op |-> "stop", name |-> name, res |-> Ok]
            /\ UNCHANGED <<children, lock, conn>>
       ELSE \E sigterm_ok \in SigtermOutcomes(services[name]) :
            IF stop_sleeps(services[name], sigterm_ok)
            THEN /\ services' = [services EXCEPT ![name] = stop_begin(@)]
                 /\ lock' = c
                 /\ conn' = [conn EXCEPT ![c] = [op |-> "stop", name |-> name,
                                                 pc |-> "stopping"]]
                 /\ resp' = NoResp
                 /\ UNCHANGED children
            ELSE /\ services' = [services EXCEPT ![name] = stop_finish(stop_begin(@))]
                 /\ children' = ChildrenAfter(services')
                 /\ resp' = [op |-> "stop", name |-> name, res |-> Ok]
                 /\ UNCHANGED <<lock, conn>>
    /\ UNCHANGED <<host, disk, tasks, phase>>

\* StopFinish as it would be if the services that name the stopped one in Requires
\* or Wants were stopped with it.
StopFinishStopsDependents(c) ==
    /\ conn[c].op \in {"stop", "restart"} /\ conn[c].pc = "stopping"
    /\ services' = [n \in DOMAIN services |->
                      IF \/ n = conn[c].name
                         \/ \E i \in 1..Len(dependencies(services[n].unit)) :
                               strip_suffix(dependencies(services[n].unit)[i]) = conn[c].name
                      THEN stop_finish(services[n]) ELSE services[n]]
    /\ children' = ChildrenAfter(services')
    /\ IF conn[c].op = "stop"
       THEN /\ lock' = "free"
            /\ conn' = [conn EXCEPT ![c] = Idle]
            /\ resp' = [op |-> "stop", name |-> conn[c].name, res |-> Ok]
       ELSE /\ conn' = [conn EXCEPT ![c].pc = "quiesce"]
            /\ resp' = NoResp
            /\ UNCHANGED lock
    /\ UNCHANGED <<host, disk, tasks, phase>>

\* Service::stop wakes from its last sleep and finishes (lines 120-133), for a Stop
\* request or as the first half of Service::restart.
StopFinish(c) ==
    /\ conn[c].op \in {"stop", "restart"} /\ conn[c].pc = "stopping"
    /\ services' = [services EXCEPT ![conn[c].name] = stop_finish(@)]
    /\ children' = ChildrenAfter(services')
    /\ IF conn[c].op = "stop"
       THEN /\ lock' = "free"
            /\ conn' = [conn EXCEPT ![c] = Idle]
            /\ resp' = [op |-> "stop", name |-> conn[c].name, res |-> Ok]
       ELSE /\ conn' = [conn EXCEPT ![c].pc = "quiesce"]
            /\ resp' = NoResp
            /\ UNCHANGED lock
    /\ UNCHANGED <<host, disk, tasks, phase>>

\* Request::Restart: restart_service takes the writer grant and runs
\* Service::restart up to its first sleep.
RestartRequest(c, name) ==
    /\ phase = "serving" /\ IsIdle(c) /\ lock = "free"
    /\ IF name \notin DOMAIN services
       THEN /\ resp' = [op |-> "restart", name |-> name,
                        res |-> Err("ServiceNotFound", name)]
            /\ UNCHANGED <<services, children, lock, conn>>
       ELSE \E sigterm_ok \in SigtermOutcomes(services[name]) :
            /\ lock' = c
            /\ resp' = NoResp
            /\ IF services[name].state # "Stopped" /\ stop_sleeps(services[name], sigterm_ok)
               THEN /\ services' = [services EXCEPT ![name] = stop_begin(@)]
                    /\ conn' = [conn EXCEPT ![c] = [op |-> "restart", name |-> name,
                                                    pc |-> "stopping"]]
                    /\ UNCHANGED children
               ELSE /\ services' = [services EXCEPT ![name] =
                                      IF @.state = "Stopped" THEN stop_begin(@)
                                      ELSE stop_finish(stop_begin(@))]
                    /\ children' = ChildrenAfter(services')
                    /\ conn' = [conn EXCEPT ![c] = [op |-> "restart", name |-> name,
                                                    pc |-> "quiesce"]]
    /\ UNCHANGED <<host, disk, tasks, phase>>

\* Service::restart wakes from its 1 s sleep and runs Service::start (lines 139-141).
RestartStart(c) ==
    /\ conn[c].op = "restart" /\ conn[c].pc = "quiesce"
    /\ \E child \in SpawnResults(services[conn[c].name].unit, FreshPid) :
       LET r == start(services[conn[c].name], child)
       IN  /\ services' = [services EXCEPT ![conn[c].name] = r.svc]
           /\ children' = ChildrenAfter(services')
           /\ resp' = [op |-> "restart", name |-> conn[c].name, res |-> r.res]
    /\ lock' = "free"
    /\ conn' = [conn EXCEPT ![c] = Idle]
    /\ UNCHANGED <<host, disk, tasks, phase>>

\* ServiceManager::supervise, one pass over the registry under the writer grant.
Tick ==
    /\ phase = "serving" /\ lock = "free"
    /\ LET pass == [n \in DOMAIN services |->
                      supervise_one(services[n],
                                    IF services[n].process = NoChild THEN "running"
                                    ELSE try_wait(children[services[n].process]))]
       IN  /\ \A n \in DOMAIN services : pass[n].restart => tasks[n] < MaxTasks
           /\ services' = [n \in DOMAIN services |-> pass[n].svc]
           /\ tasks' = [n \in Names |->
                          IF n \in DOMAIN services /\ pass[n].restart
                          THEN tasks[n] + 1 ELSE tasks[n]]
    /\ resp' = [op |-> "tick"]
    /\ UNCHANGED <<host, disk, children, lock, conn, phase>>

\* A delayed-restart task wakes, takes the writer grant and calls Service::start
\* (supervise, lines 208-215).
TaskFire(name) ==
    /\ tasks[name] > 0 /\ lock = "free"
    /\ tasks' = [tasks EXCEPT ![name] = @ - 1]
    /\ IF name \in DOMAIN services
       THEN \E child \in SpawnResults(services[name].unit, FreshPid) :
            LET r == start(services[name], child)
            IN  /\ services' = [services EXCEPT ![name] = r.svc]
                /\ resp' = [op |-> "task", name |-> name, res |-> r.res]
       ELSE /\ services' = services
            /\ resp' = [op |-> "task", name |-> name, res |-> Ok]
    /\ children' = ChildrenAfter(services')
    /\ UNCHANGED <<host, disk, lock, conn, phase>>

\* A tracked child terminates (or its wait status is lost): the OS side.
ChildExit(p, how) ==
    /\ children[p] = "alive"
    /\ children' = [children EXCEPT ![p] = how]
    /\ resp' = NoResp
    /\ UNCHANGED <<host, disk, services, lock, conn, tasks, phase>>

ExitKinds == {"exit_ok", "exit_fail", "wait_err"}

(***************************************************************************)
(* daemon.rs: the rest of the protocol, and the connection itself          *)
(***************************************************************************)
Closed == [op |-> "closed"]
NoAnswer == [kind |-> "NoAnswer", arg |-> ""]
InvalidRequest == Err("InvalidRequest", "")

\* Request frames that are not a request: a line that is not JSON, an empty line,
\* a line whose bytes are not UTF-8.
BadFrames == {"not_json", "blank", "not_utf8"}

\* AsyncBufReadExt::read_line on a frame: Err(InvalidData) when the bytes are not
\* valid UTF-8, else the line.
read_line(frame) == IF frame = "not_utf8" THEN "Err" ELSE "line"

\* Request::Status
StatusRequest(c, name) ==
    /\ phase = "serving" /\ IsIdle(c) /\ lock = "free"
    /\ LET r == get_service_status(name, services)
       IN  resp' = [op |-> "status", name |-> name, res |-> r.res, state |-> r.state]
    /\ UNCHANGED <<host, disk, services, children, lock, conn, tasks, phase>>

\* Request::List
ListRequest(c) ==
    /\ phase = "serving" /\ IsIdle(c) /\ lock = "free"
    /\ \E v \in list_services(services) : resp' = [op |-> "list", services |-> v]
    /\ UNCHANGED <<host, disk, services, children, lock, conn, tasks, phase>>

\* Request::Ping: answered without touching the registry.
PingRequest(c) ==
    /\ phase = "serving" /\ IsIdle(c)
    /\ resp' = [op |-> "ping", res |-> Ok]
    /\ UNCHANGED <<host, disk, services, children, lock, conn, tasks, phase>>

\* Request::Shutdown: the response is written and flushed, then process::exit(0)
\* ends every connection handler, the supervision task and the delayed restarts.
ShutdownRequest(c) ==
    /\ phase = "serving" /\ IsIdle(c)
    /\ resp' = [op |-> "shutdown", conn |-> c, res |-> Ok]
    /\ phase' = "exited"
    /\ conn' = [k \in Clients |-> Closed]
    /\ tasks' = [n \in Names |-> 0]
    /\ UNCHANGED <<host, disk, services, children, lock>>

\* handle_connection reads a frame that is not a request (lines 145-156): a
\* read_line error ends the handler, a parse error is answered and the loop goes on.
BadFrame(c, frame) ==
    /\ phase = "serving" /\ IsIdle(c)
    /\ IF read_line(frame) = "Err"
       THEN /\ conn' = [conn EXCEPT ![c] = Closed]
            /\ resp' = [op |-> "frame", conn |-> c, res |-> NoAnswer]
       ELSE /\ conn' = conn
            /\ resp' = [op |-> "frame", conn |-> c, res |-> InvalidRequest]
    /\ UNCHANGED <<host, disk, services, children, lock, tasks, phase>>

\* The client closes its end: read_line returns 0 and the handler returns.
ClientClose(c) ==
    /\ phase = "serving" /\ IsIdle(c)
    /\ conn' = [conn EXCEPT ![c] = Closed]
    /\ resp' = NoResp
    /\ UNCHANGED <<host, disk, services, children, lock, tasks, phase>>

\* The accept loop takes a new connection and spawns its handler.
Connect(c) ==
    /\ phase = "serving" /\ conn[c] = Closed
    /\ conn' = [conn EXCEPT ![c] = Idle]
    /\ resp' = NoResp
    /\ UNCHANGED <<host, disk, services, children, lock, tasks, phase>>

(***************************************************************************)
(* daemon.rs, main.rs: starting the daemon                                 *)
(***************************************************************************)
\* The daemon-start processes (`diakonos --daemon-start`), named by their pid, and
\* the CLI processes that auto-start the daemon.
Daemons == 1..MaxDaemons
Clis == {"k1", "k2"}

\* No PID recorded in the PID file / no socket file at the socket path.
NoFile == 0

\* A machine on which the daemon was never started.
HostBoot ==
    [pid_file |-> NoFile, socket |-> NoFile,
     daemon |-> [d \in Daemons |-> "unborn"],
     cli |-> [k \in Clis |-> "idle"]]

\* Whether the process of daemon-start d is alive as the daemon: from daemonize
\* on, it holds the lock on the PID file until it exits.
IsDaemon(h, d) == h.daemon[d] \in {"daemonized", "serving"}

\* is_daemon_running: the PID file exists, parses, and the null signal reaches the
\* recorded process.
is_daemon_running(h) == h.pid_file # NoFile /\ IsDaemon(h, h.pid_file)

\* Someone runs `diakonos --daemon-start` by hand: main calls start_daemon.
DaemonStartByHand(d) ==
    /\ host.daemon[d] = "unborn"
    /\ \A e \in Daemons : e < d => host.daemon[e] # "unborn"
    /\ host' = [host EXCEPT !.daemon[d] = "start"]
    /\ UNCHANGED <<disk, services, children, lock, conn, tasks, phase, resp>>

\* start_daemon, lines 38-41: remove the socket file if there is one.
RemoveOldSocket(d) ==
    /\ host.daemon[d] = "start"
    /\ host' = [host EXCEPT !.daemon[d] = "cleaned", !.socket = NoFile]
    /\ UNCHANGED <<disk, services, children, lock, conn, tasks, phase, resp>>

\* start_daemon, lines 47-70: Daemonize::start creates and locks the PID file and
\* writes the pid; it fails when a live daemon holds the lock, and main exits.
Daemonize(d) ==
    /\ host.daemon[d] = "cleaned"
    /\ IF \E e \in Daemons : IsDaemon(host, e)
       THEN host' = [host EXCEPT !.daemon[d] = "aborted"]
       ELSE host' = [host EXCEPT !.daemon[d] = "daemonized", !.pid_file = d]
    /\ UNCHANGED <<disk, services, children, lock, conn, tasks, phase, resp>>

\* run_daemon, lines 92-93: bind the listener at the socket path; the bind fails
\* when a file is already there.
BindSocket(d) ==
    /\ host.daemon[d] = "daemonized"
    /\ IF host.socket # NoFile
       THEN host' = [host EXCEPT !.daemon[d] = "aborted"]
       ELSE host' = [host EXCEPT !.daemon[d] = "serving", !.socket = d]
    /\ UNCHANGED <<disk, services, children, lock, conn, tasks, phase, resp>>

\* The daemon exits (a Shutdown request): PID file and socket file stay behind.
DaemonExit(d) ==
    /\ host.daemon[d] = "serving"
    /\ host' = [host EXCEPT !.daemon[d] = "exited"]
    /\ UNCHANGED <<disk, services, children, lock, conn, tasks, phase, resp>>

\* ensure_daemon_started, lines 259-274: return if the daemon runs, else spawn
\* `--daemon-start` and begin to wait for the socket file.
CliEnsure(k) ==
    /\ host.cli[k] = "idle"
    /\ IF is_daemon_running(host)
       THEN host' = [host EXCEPT !.cli[k] = "connect"]
       ELSE \E d \in Daemons :
               /\ host.daemon[d] = "unborn"
               /\ \A e \in Daemons : e < d => host.daemon[e] # "unborn"
               /\ host' = [host EXCEPT !.cli[k] = "poll", !.daemon[d] = "start"]
    /\ UNCHANGED <<disk, services, children, lock, conn, tasks, phase, resp>>

\* ensure_daemon_started, lines 277-286: the socket file shows up, or the 5 s are over.
CliPoll(k) ==
    /\ host.cli[k] = "poll"
    /\ \/ host.socket # NoFile /\ host' = [host EXCEPT !.cli[k] = "connect"]
       \/ host.socket = NoFile /\ host' = [host EXCEPT !.cli[k] = "idle"]
    /\ UNCHANGED <<disk, services, children, lock, conn, tasks, phase, resp>>

\* Client::send_request connects to the socket path; the command ends either way.
CliConnect(k) ==
    /\ host.cli[k] = "connect"
    /\ host' = [host EXCEPT !.cli[k] = "idle"]
    /\ UNCHANGED <<disk, services, children, lock, conn, tasks, phase, resp>>

(***************************************************************************)
(* Service directories                                                     *)
(***************************************************************************)
File(unit) == [ok |-> TRUE, unit |-> unit]
Malformed == [ok |-> FALSE]

\* The state after ServiceManager::new, for a service directory drawn from `dirs`.
InitWith(dirs) ==
    /\ disk \in dirs
    /\ services = [n \in {} |-> Service_new(<<>>)]
    /\ children = [p \in Pids |-> "free"]
    /\ lock = "free"
    /\ conn = [c \in Clients |-> Idle]
    /\ tasks = [n \in Names |-> 0]
    /\ phase = "loading"
    /\ resp = NoResp
    /\ host = HostBoot

(***************************************************************************)
(* The supervisor with its clients: the specification of the daemon        *)
(***************************************************************************)
\* Unit files of a directory holding the single service "a": every restart policy,
\* commands that spawn, that may fail to spawn, that never spawn and that are blank,
\* with and without ExecStop.
SoloUnits ==
    {UnitFile(<<>>, <<>>, <<>>, "/bin/sleep 60", <<>>, r) :
        r \in {None, "always", "on-failure", "no"}}
    \cup {UnitFile(<<>>, <<>>, <<>>, "/opt/flaky run", <<>>, r) : r \in {"always", "on-failure"}}
    \cup {UnitFile(<<>>, <<>>, <<>>, "/nonexistent", <<>>, "always"),
          UnitFile(<<>>, <<>>, <<>>, "  ", <<>>, "on-failure"),
          UnitFile(<<>>, <<>>, <<>>, "/bin/sleep 60", Some("/bin/true"), "always"),
          UnitFile(<<>>, <<>>, <<>>, "/bin/false", Some("  "), None)}

\* Directories with "a" alone; the file of "b", when there is one, does not parse.
SoloDirs ==
    {[n \in {"a"} |-> File(u)] : u \in SoloUnits}
    \cup {[n \in {"a", "b"} |-> IF n = "a" THEN File(u) ELSE Malformed] :
            u \in {UnitFile(<<>>, <<>>, <<>>, "/bin/sleep 60", <<>>, None)}}

\* Directories with the dependency "b" and the dependent "a": "a" names "b" in
\* Requires (with the .service suffix), or in Wants and After (without it).
PairDirs ==
    {[n \in {"a", "b"} |->
        IF n = "a" THEN File(UnitFile(Some(<<"b.service">>), <<>>, <<>>,
                                      "/bin/sleep 60", <<>>, None))
        ELSE File(UnitFile(<<>>, <<>>, <<>>, "/bin/sleep 60", <<>>, None))],
     [n \in {"a", "b"} |->
        IF n = "a" THEN File(UnitFile(<<>>, Some(<<"b">>), Some(<<"b">>),
                                      "/opt/flaky run", <<>>, "no"))
        ELSE File(UnitFile(<<>>, <<>>, <<>>, "/opt/flaky run", <<>>, None))]}

ServiceDirs == SoloDirs \cup PairDirs

Init == InitWith(ServiceDirs)

Next ==
    \/ \E n \in Names : Load(n)
    \/ DaemonReady
    \/ \E c \in Clients, n \in ReqNames : StartRequest(c, n)
    \/ \E c \in Clients : StartStep(c)
    \/ \E c \in Clients, n \in ReqNames : StopRequest(c, n)
    \/ \E c \in Clients : StopFinish(c)
    \/ \E c \in Clients, n \in ReqNames : RestartRequest(c, n)
    \/ \E c \in Clients : RestartStart(c)
    \/ Tick
    \/ \E n \in Names : TaskFire(n)
    \/ \E p \in Pids, how \in ExitKinds : ChildExit(p, how)

Spec == Init /\ [][Next]_vars

(***************************************************************************)
(* The dependency resolver over every small dependency graph               *)
(***************************************************************************)
\* Option<Vec<String>> as a unit file states it: absent, or the list.
OptOf(l) == IF l = <<>> THEN <<>> ELSE Some(l)

\* How MaxEdges dependency entries at most spread over the Requires and Wants lists
\* of the three unit files.
EdgeCounts ==
    {k \in [1..6 -> 0..MaxEdges] : k[1] + k[2] + k[3] + k[4] + k[5] + k[6] <= MaxEdges}

\* Every service directory with the files a, b and c whose Requires and Wants lists
\* hold at most MaxEdges entries in all; each service runs /bin/sleep.
GraphDirs ==
    UNION {
        {[n \in Names |->
            File(UnitFile(
                OptOf(IF n = "a" THEN ra ELSE IF n = "b" THEN rb ELSE rc),
                OptOf(IF n = "a" THEN wa ELSE IF n = "b" THEN wb ELSE wc),
                <<>>, "/bin/sleep 60", <<>>, None))] :
            ra \in [1..k[1] -> DepStrings], wa \in [1..k[2] -> DepStrings],
            rb \in [1..k[3] -> DepStrings], wb \in [1..k[4] -> DepStrings],
            rc \in [1..k[5] -> DepStrings], wc \in [1..k[6] -> DepStrings]} :
        k \in EdgeCounts}

\* ServiceManager::load_all_services: load_service on every entry of the directory.
RECURSIVE load_all_services(_, _, _)
load_all_services(entries, dir, svcs) ==
    IF entries = {} THEN svcs
    ELSE LET name == CHOOSE n \in entries : TRUE
         IN  load_all_services(entries \ {name}, dir, load_service(name, dir, svcs).svcs)

\* The daemon when load_all_services has returned, for a directory of GraphDirs.
InitResolve ==
    /\ disk \in GraphDirs
    /\ services = load_all_services(DOMAIN disk, disk, [n \in {} |-> Service_new(<<>>)])
    /\ children = [p \in Pids |-> "free"]
    /\ lock = "free"
    /\ conn = [c \in Clients |-> Idle]
    /\ tasks = [n \in Names |-> 0]
    /\ phase = "serving"
    /\ resp = NoResp
    /\ host = HostBoot

\* Start requests of one connection.
NextResolve ==
    \/ \E n \in ReqNames : StartRequest("c1", n)
    \/ StartStep("c1")

SpecResolve == InitResolve /\ [][NextResolve]_vars

(***************************************************************************)
(* The dependency resolver over graphs of four services                    *)
(***************************************************************************)
\* The lists of at most MaxDeps entries over S, repeated entries included.
DepLists(S) == UNION {[1..k -> S] : k \in 0..MaxDeps}

\* Directories with the files a, b, c and d: "a" Requires a list over b, c, d; "b"
\* Wants a list over c, d; "c" Wants a list over d, a; "d" has no dependency or
\* Requires "a". Among them the diamond a -> b, a -> c, b -> d, c -> d.
DiamondDirs ==
    {[n \in {"a", "b", "c", "d"} |->
        File(UnitFile(OptOf(IF n = "a" THEN la ELSE IF n = "d" THEN ld ELSE <<>>),
                      OptOf(IF n = "b" THEN lb ELSE IF n = "c" THEN lc ELSE <<>>),
                      <<>>, "/bin/sleep 60", <<>>, None))] :
        la \in DepLists({"b", "c", "d"}), lb \in DepLists({"c", "d"}),
        lc \in DepLists({"d", "a"}), ld \in {<<>>, <<"a">>}}

\* The daemon when load_all_services has returned, for a directory of DiamondDirs.
InitDiamond ==
    /\ disk \in DiamondDirs
    /\ services = load_all_services(DOMAIN disk, disk, [n \in {} |-> Service_new(<<>>)])
    /\ children = [p \in Pids |-> "free"]
    /\ lock = "free"
    /\ conn = [c \in Clients |-> Idle]
    /\ tasks = [n \in Names |-> 0]
    /\ phase = "serving"
    /\ resp = NoResp
    /\ host = HostBoot

\* Start requests of one connection for "a" and for "b".
NextDiamond ==
    \/ \E n \in {"a", "b"} : StartRequest("c1", n)
    \/ StartStep("c1")

SpecDiamond == InitDiamond /\ [][NextDiamond]_vars

(***************************************************************************)
(* The supervisor left to itself: no Stop or Restart requests, and the     *)
(* supervision task and the delayed-restart tasks are scheduled fairly     *)
(***************************************************************************)
\* Directories with the single service "a", under each restart policy.
LiveDirs ==
    {[n \in {"a"} |-> File(UnitFile(<<>>, <<>>, <<>>, cmd, <<>>, r))] :
        cmd \in {"/bin/sleep 60", "/bin/false", "/opt/flaky run"},
        r \in {"always", "on-failure", None}}

InitLive == InitWith(LiveDirs)

NextLive ==
    \/ \E n \in Names : Load(n)
    \/ DaemonReady
    \/ \E c \in Clients, n \in ReqNames : StartRequest(c, n)
    \/ \E c \in Clients : StartStep(c)
    \/ Tick
    \/ \E n \in Names : TaskFire(n)
    \/ \E p \in Pids, how \in ExitKinds : ChildExit(p, how)

\* supervise wakes every 5 s and is granted the lock (tokio's RwLock is fair); a
\* delayed-restart task wakes after restart_sec and is granted the lock.
SpecLive ==
    /\ InitLive /\ [][NextLive]_vars
    /\ WF_vars(Tick)
    /\ \A n \in Names : WF_vars(TaskFire(n))

(***************************************************************************)
(* The daemon with every request of the protocol                           *)
(***************************************************************************)
\* A directory with "a" alone, and one with "a", "b" and a file "c" that does not
\* parse; no service names another.
DaemonDirs ==
    {[n \in {"a"} |-> File(UnitFile(<<>>, <<>>, <<>>, "/bin/sleep 60", Some("/bin/true"),
                                    "always"))],
     [n \in {"a", "b", "c"} |->
        IF n = "a" THEN File(UnitFile(<<>>, <<>>, <<>>, "/opt/flaky run", <<>>, None))
        ELSE IF n = "b" THEN File(UnitFile(<<>>, <<>>, <<>>, "/bin/sleep 60", <<>>, None))
        ELSE Malformed]}

InitDaemon == InitWith(DaemonDirs)

NextDaemon ==
    \/ \E n \in Names : Load(n)
    \/ DaemonReady
    \/ \E c \in Clients, n \in ReqNames : StartRequest(c, n)
    \/ \E c \in Clients : StartStep(c)
    \/ \E c \in Clients, n \in ReqNames : StopRequest(c, n)
    \/ \E c \in Clients : StopFinish(c)
    \/ \E c \in Clients, n \in ReqNames : RestartRequest(c, n)
    \/ \E c \in Clients : RestartStart(c)
    \/ \E c \in Clients, n \in ReqNames : StatusRequest(c, n)
    \/ \E c \in Clients : ListRequest(c)
    \/ \E c \in Clients : PingRequest(c)
    \/ \E c \in Clients : ShutdownRequest(c)
    \/ \E c \in Clients, f \in BadFrames : BadFrame(c, f)
    \/ \E c \in Clients : ClientClose(c)
    \/ \E c \in Clients : Connect(c)
    \/ Tick
    \/ \E n \in Names : TaskFire(n)
    \/ \E p \in Pids, how \in ExitKinds : ChildExit(p, how)

SpecDaemon == InitDaemon /\ [][NextDaemon]_vars

(***************************************************************************)
(* Daemon starts and CLI auto-starts on one machine                        *)
(***************************************************************************)
InitHost == InitWith(DaemonDirs)

NextHost ==
    \/ \E d \in Daemons : DaemonStartByHand(d)
    \/ \E d \in Daemons : RemoveOldSocket(d)
    \/ \E d \in Daemons : Daemonize(d)
    \/ \E d \in Daemons : BindSocket(d)
    \/ \E d \in Daemons : DaemonExit(d)
    \/ \E k \in Clis : CliEnsure(k)
    \/ \E k \in Clis : CliPoll(k)
    \/ \E k \in Clis : CliConnect(k)

SpecHost == InitHost /\ [][NextHost]_vars

(***************************************************************************)
(* Start requests over a directory with an ordering-only dependency        *)
(***************************************************************************)
\* The directory with "a", which Requires "b" and names "c" in After only, "b"
\* without dependencies, and "c", which names "b" in After only.
TrioDirs ==
    {[n \in {"a", "b", "c"} |->
        IF n = "a" THEN File(UnitFile(Some(<<"b">>), <<>>, Some(<<"c">>),
                                      "/bin/sleep 60", <<>>, None))
        ELSE IF n = "b" THEN File(UnitFile(<<>>, <<>>, <<>>, "/bin/sleep 60", <<>>, None))
        ELSE File(UnitFile(<<>>, <<>>, Some(<<"b.service">>), "/bin/sleep 60", <<>>, None))]}

InitTrio == InitWith(TrioDirs)

\* Start requests of both connections, with the children exiting and the
\* reconciler passing in between.
NextTrio ==
    \/ \E n \in Names : Load(n)
    \/ DaemonReady
    \/ \E c \in Clients, n \in ReqNames : StartRequest(c, n)
    \/ \E c \in Clients : StartStep(c)
    \/ Tick
    \/ \E p \in Pids, how \in ExitKinds : ChildExit(p, how)

SpecTrio == InitTrio /\ [][NextTrio]_vars

(***************************************************************************)
(* Properties                                                              *)
(***************************************************************************)
Loaded == DOMAIN services

\* Option<RestartPolicy> read with unwrap_or(No), as the unit file states it.
PolicyOf(n) == IF services[n].unit.restart = None THEN "no" ELSE services[n].unit.restart

\* C1: whenever no operation holds the writer grant, a service is Running exactly
\* when its pid is set and its child handle is present.
RunningIffPidAndHandle ==
    lock = "free" =>
        \A n \in Loaded :
            services[n].state = "Running"
                <=> (services[n].pid # NoChild /\ services[n].process # NoChild)

\* C1 witness: after a reconciler pass, a service is Running with its pid set and
\* the handle of a live child.
RunningAfterPass ==
    /\ lock = "free" /\ resp.op = "tick"
    /\ \E n \in Loaded : /\ services[n].state = "Running"
                         /\ services[n].pid # NoChild
                         /\ services[n].process = services[n].pid
                         /\ children[services[n].pid] = "alive"

\* C2: a service that is Stopped or Failed has no pid and no child handle.
TerminalHasNoChild ==
    \A n \in Loaded :
        services[n].state \in {"Stopped", "Failed"}
            => (services[n].pid = NoChild /\ services[n].process = NoChild)

\* C3: when stop(s) has returned, s is Stopped, its pid is cleared and no child
\* handle is retained.
StopLeavesNoChild ==
    (resp.op = "stop" /\ resp.res = Ok) =>
        /\ services[resp.name].state = "Stopped"
        /\ services[resp.name].pid = NoChild
        /\ services[resp.name].process = NoChild

\* C10: when the start of an entry fails with StartError, that record is Failed
\* with no pid and no handle, and no record is left in Starting.
FailedStartMarksFailed ==
    (resp.op = "start" /\ resp.res.kind = "StartError") =>
        /\ services[resp.entry].state = "Failed"
        /\ services[resp.entry].pid = NoChild
        /\ services[resp.entry].process = NoChild
        /\ \A n \in Loaded : services[n].state # "Starting"

\* The activation dependencies of a service: the names in its Requires and Wants
\* lists, .service suffix stripped (none for a name that is not loaded).
Range(l) == {l[i] : i \in 1..Len(l)}
ActivationDeps(n) ==
    IF n \notin Loaded THEN {}
    ELSE {strip_suffix(d) : d \in Range(OptList(services[n].unit.requires))
                                   \cup Range(OptList(services[n].unit.wants))}

\* The transitive activation dependencies of n.
RECURSIVE Closure(_, _)
Closure(S, k) ==
    IF k = 0 THEN S ELSE Closure(S \cup UNION {ActivationDeps(m) : m \in S}, k - 1)
TransitiveDeps(n) == Closure(ActivationDeps(n), Cardinality(Names))

\* A step of connection c's Start request that spawns the child of the requested
\* service itself.
SpawnsOwnChild(c) ==
    /\ conn[c].op = "start" /\ conn'[c] # conn[c]
    /\ Head(conn[c].queue) = conn[c].name
    /\ services'[conn[c].name].process # services[conn[c].name].process

\* C6: when a start(name) spawns name's own child, every transitive activation
\* dependency of name was left Running by an earlier step of that same start, and
\* those steps ran each dependency after its own dependencies.
DepsRanBeforeOwnSpawn ==
    [][\A c \in Clients :
          SpawnsOwnChild(c) =>
              /\ TransitiveDeps(conn[c].name) \subseteq Range(conn[c].ran)
              /\ \A i \in 1..Len(conn[c].ran) :
                    \A d \in ActivationDeps(conn[c].ran[i]) :
                        \E j \in 1..(i - 1) : conn[c].ran[j] = d]_vars

\* C6 witness: a Start of "a", which depends on "b", has just spawned a's child.
StartedAfterDependency ==
    /\ resp.op = "start" /\ resp.name = "a" /\ resp.res = Ok
    /\ "b" \in Loaded /\ "b" \in ActivationDeps("a")
    /\ services["a"].state = "Running"
    /\ children[services["a"].process] = "alive"

\* C8: each restart of a service by a delayed-restart task adds one to its
\* restart_count.
RestartCountIncrements ==
    [][\A n \in Loaded :
          (resp'.op = "task" /\ resp'.name = n
              /\ services'[n].process # services[n].process)
          => services'[n].restart_count = services[n].restart_count + 1]_vars

\* C9: a reconciler pass spawns a delayed restart for a service exactly when it
\* moved that service into Stopped or Failed and the policy permits it: always on
\* both, on-failure only into Failed, no (or absent) never. Nothing else spawns one.
RestartScheduledIffPolicy ==
    [][\A n \in Loaded :
          IF resp'.op = "tick"
          THEN /\ tasks'[n] \in {tasks[n], tasks[n] + 1}
               /\ tasks'[n] = tasks[n] + 1
                    <=> /\ services'[n].state # services[n].state
                        /\ services'[n].state \in {"Stopped", "Failed"}
                        /\ \/ PolicyOf(n) = "always"
                           \/ PolicyOf(n) = "on-failure" /\ services'[n].state = "Failed"
          ELSE tasks'[n] <= tasks[n]]_vars

\* C9 witness: a pass has just moved an on-failure service into Failed and spawned
\* its delayed restart.
RestartScheduledOnFailure ==
    /\ resp.op = "tick"
    /\ \E n \in Loaded : /\ PolicyOf(n) = "on-failure"
                         /\ services[n].state = "Failed"
                         /\ tasks[n] > 0

\* C4: a resolved activation order holds exactly the target and its transitive
\* activation dependencies, each once, the target last, and every activation
\* dependency of an element before that element.
ResolvedOrderIsTopological ==
    \A c \in Clients :
        conn[c].op = "start" =>
            LET o == conn[c].order
            IN  /\ Range(o) = TransitiveDeps(conn[c].name) \cup {conn[c].name}
                /\ Len(o) = Cardinality(Range(o))
                /\ o[Len(o)] = conn[c].name
                /\ \A i \in 1..Len(o) :
                      \A d \in ActivationDeps(o[i]) : \E j \in 1..(i - 1) : o[j] = d

\* C4 witness: "a" resolved with "b" and "c" as dependencies, "c" being a
\* dependency of both "a" and "b".
ResolvedSharedDependency ==
    /\ conn["c1"].op = "start" /\ conn["c1"].name = "a"
    /\ conn["c1"].order = <<"c", "b", "a">>
    /\ ActivationDeps("a") = {"b", "c"} /\ ActivationDeps("b") = {"c"}

\* Whether t lies on a cycle of the activation graph.
OnCycle(t) == t \in Loaded /\ t \in TransitiveDeps(t)

\* Whether a step accepts a Start of t (resolution succeeded) on some connection.
Accepted(t) ==
    \E c \in Clients : conn[c].op = "idle" /\ conn'[c].op = "start" /\ conn'[c].name = t

\* C5 as claimed: a Start of a target on a cycle is never accepted and is answered
\* with DependencyCycle by a step that changes no record.
CycleRejectedAsCycle ==
    [][\A t \in Names :
          OnCycle(t) =>
              /\ ~Accepted(t)
              /\ (resp'.op = "start" /\ resp'.name = t) =>
                    /\ resp'.res = DependencyCycle
                    /\ services' = services /\ children' = children /\ tasks' = tasks]_vars

\* C5 as amended: a Start of a target on a cycle is never accepted and changes no
\* record; it is answered with DependencyCycle, or with DependencyNotMet(d) for a
\* transitive dependency d missing from the registry, and with DependencyCycle
\* whenever no transitive dependency is missing.
CycleRejected ==
    [][\A t \in Names :
          OnCycle(t) =>
              /\ ~Accepted(t)
              /\ (resp'.op = "start" /\ resp'.name = t) =>
                    /\ \/ resp'.res = DependencyCycle
                       \/ /\ resp'.res.kind = "DependencyNotMet"
                          /\ resp'.res.arg \in TransitiveDeps(t) \ Loaded
                    /\ TransitiveDeps(t) \subseteq Loaded => resp'.res = DependencyCycle
                    /\ services' = services /\ children' = children /\ tasks' = tasks]_vars

\* C5 witness: "a" requires "b" and "b" requires "a"; Start{a} was answered with
\* DependencyCycle while "c", started earlier, is Running and "a", "b" are Stopped.
CycleReported ==
    /\ resp.op = "start" /\ resp.name = "a" /\ resp.res = DependencyCycle
    /\ ActivationDeps("a") = {"b"} /\ ActivationDeps("b") = {"a"}
    /\ services["a"].state = "Stopped" /\ services["b"].state = "Stopped"
    /\ services["c"].state = "Running"

\* Whether every spawn of n's command succeeds.
SpawnAlwaysSucceeds(n) ==
    LET parts == split_whitespace(services[n].unit.exec_start)
    IN  parts # <<>> /\ parts[1] \in Executables

\* The child of a Running service n has exited and no pass has seen it yet.
ExitedUnseen(n) ==
    /\ n \in Loaded /\ services[n].state = "Running"
    /\ services[n].process # NoChild
    /\ children[services[n].process] # "alive"

\* Service n is Running with a live child.
RunningLive(n) ==
    /\ n \in Loaded /\ services[n].state = "Running"
    /\ services[n].process # NoChild
    /\ children[services[n].process] = "alive"

\* C7: when the child of a service with policy always, whose spawn always succeeds,
\* exits, the service is eventually Running again with a new child.
AlwaysPolicyRestarts ==
    \A n \in Names :
        (ExitedUnseen(n) /\ PolicyOf(n) = "always" /\ SpawnAlwaysSucceeds(n))
            ~> RunningLive(n)

\* C7 witness: a delayed-restart task has just re-spawned a service with policy
\* always whose spawn always succeeds.
RestartedByTask ==
    /\ resp.op = "task" /\ resp.res = Ok
    /\ RunningLive(resp.name)
    /\ PolicyOf(resp.name) = "always" /\ SpawnAlwaysSucceeds(resp.name)

\* C11: throughout a start(name), the entries already called are exactly the ones
\* that were left Running, in activation order; a call that does not leave its entry
\* Running ends the request with that entry's StartError, spawns nothing, and no
\* step of a start touches any record but the entry it calls.
FirstFailureEndsStart ==
    [][\A c \in Clients :
          (conn[c].op = "start" /\ conn'[c] # conn[c]) =>
              LET dep == Head(conn[c].queue)
              IN  /\ conn[c].ran \o conn[c].queue
                        = start_order(conn[c].order, conn[c].name)
                  /\ \A n \in Loaded \ {dep} : services'[n] = services[n]
                  /\ services'[dep].state # "Running" =>
                        /\ conn'[c] = Idle
                        /\ resp' = [op |-> "start", name |-> conn[c].name, entry |-> dep,
                                    res |-> resp'.res]
                        /\ resp'.res.kind = "StartError"
                        /\ services'[dep].process = services[dep].process
                        /\ children' = children
                  /\ (resp'.op = "start" /\ resp'.res # Ok)
                        => services'[dep].state # "Running"]_vars

\* C11 witness: Start{a} failed at "a" itself after its dependency "b" was started:
\* "b" is still Running with its live child and "a" has no child.
FailedAfterDependencyRan ==
    /\ resp.op = "start" /\ resp.name = "a" /\ resp.entry = "a"
    /\ resp.res.kind = "StartError"
    /\ "b" \in ActivationDeps("a")
    /\ services["b"].state = "Running"
    /\ children[services["b"].process] = "alive"
    /\ services["a"].process = NoChild

\* C12: a start, stop, restart or status request naming a service that is not in
\* the registry is answered with ServiceNotFound(name) by a step that changes no
\* record, creates none and spawns no child.
UnknownNameNotFound ==
    [][(resp'.op \in {"start", "stop", "restart", "status"}
            /\ resp'.name \notin DOMAIN services)
          => /\ resp'.res = Err("ServiceNotFound", resp'.name)
             /\ services' = services
             /\ children' = children
             /\ tasks' = tasks]_vars

\* C12 witness: Status{nope} was answered with ServiceNotFound(nope) while the
\* loaded services "a" and "b" run.
UnknownStatusRejected ==
    /\ resp.op = "status" /\ resp.name = "nope"
    /\ resp.res = Err("ServiceNotFound", "nope")
    /\ Loaded = {"a", "b"}
    /\ services["a"].state = "Running" /\ services["b"].state = "Running"

\* The activation dependencies of a loaded service as the walk meets them: Requires
\* then Wants, .service suffix stripped.
DepList(t) ==
    LET l == dependencies(services[t].unit) IN [i \in 1..Len(l) |-> strip_suffix(l[i])]

\* Whether the walk from m ends well: m and everything below it is loaded and
\* none of it lies on a cycle.
Clean(m) ==
    /\ m \in Loaded /\ TransitiveDeps(m) \subseteq Loaded
    /\ \A x \in TransitiveDeps(m) \cup {m} : x \notin TransitiveDeps(x)

\* A step that answers a Start at the end of dependency resolution.
ResolutionAnswered(t) == resp'.op = "start" /\ resp'.name = t /\ conn' = conn

\* C13: a Start of a loaded target whose walk meets a dependency d missing from
\* the registry is answered with DependencyNotMet(d) and changes no record: the
\* answer names a missing transitive dependency; it names the first missing entry
\* of the target's own Requires-then-Wants list when the entries before it resolve;
\* a target with a missing transitive dependency is never accepted, and is answered
\* with DependencyNotMet unless the walk closes a cycle first.
MissingDependencyRejected ==
    [][\A t \in Loaded :
          /\ ~(TransitiveDeps(t) \subseteq Loaded) => ~Accepted(t)
          /\ ResolutionAnswered(t) =>
                /\ services' = services /\ children' = children /\ tasks' = tasks
                /\ resp'.res.kind = "DependencyNotMet"
                      => resp'.res.arg \in TransitiveDeps(t) \ Loaded
                /\ (~(TransitiveDeps(t) \subseteq Loaded)
                        /\ \A x \in TransitiveDeps(t) \cup {t} : x \notin TransitiveDeps(x))
                      => resp'.res.kind = "DependencyNotMet"
                /\ \A i \in 1..Len(DepList(t)) :
                      (/\ DepList(t)[i] \notin Loaded
                       /\ \A j \in 1..(i - 1) :
                             /\ Clean(DepList(t)[j])
                             /\ t \notin TransitiveDeps(DepList(t)[j]) \cup {DepList(t)[j]})
                      => resp'.res = Err("DependencyNotMet", DepList(t)[i])]_vars

\* C13 witness: "a" has no Requires and Wants "b" then "z"; there is no z.service.
\* Start{a} was answered with DependencyNotMet(z); "b", started earlier, is still
\* Running and "a" is Stopped.
MissingWantReported ==
    /\ resp.op = "start" /\ resp.name = "a" /\ resp.res = Err("DependencyNotMet", "z")
    /\ services["a"].unit.requires = <<>>
    /\ services["a"].unit.wants = Some(<<"b", "z">>)
    /\ services["b"].state = "Running" /\ services["a"].state = "Stopped"

\* C14: while a stop waits out a grace period, the writer grant is free, so that
\* requests on the registry and the reconciler pass can proceed.
StopSleepsWithoutGrant ==
    \A c \in Clients :
        (conn[c].op = "stop" /\ conn[c].pc = "stopping") => lock = "free"

\* A step that runs a start on service n: a call of a Start request, the second
\* half of a Restart, or a delayed-restart task.
StartCalledOn(n) ==
    \/ \E c \in Clients :
          /\ conn[c].op = "start" /\ conn'[c] # conn[c] /\ Head(conn[c].queue) = n
    \/ \E c \in Clients :
          /\ conn[c].op = "restart" /\ conn[c].pc = "quiesce" /\ conn'[c] = Idle
          /\ conn[c].name = n
    \/ resp'.op = "task" /\ resp'.name = n

\* C15: a start on a record that is Running returns success and leaves the record
\* as it is; a step stores a new handle in a record only if the record was not
\* Running and tracked no live child; and no child is tracked by two records.
StartsLinearised ==
    [][\A n \in Loaded :
          /\ (StartCalledOn(n) /\ services[n].state = "Running") =>
                /\ services'[n] = services[n]
                /\ children' = children
                /\ resp'.op \in {"start", "restart", "task"} => resp'.res = Ok
          /\ (services'[n].process # services[n].process
                  /\ services'[n].process # NoChild) =>
                /\ services[n].state # "Running"
                /\ \/ services[n].process = NoChild
                   \/ children[services[n].process] # "alive"
          /\ \A m \in Loaded \ {n} :
                services'[n].process # NoChild
                    => services'[m].process # services'[n].process]_vars

\* C15 witness: a Start has just returned success for a service that was already
\* Running: its child had exited unseen, so a spawn would have left a live one.
StartFoundRunning ==
    /\ resp.op = "start" /\ resp.res = Ok /\ resp.entry = resp.name
    /\ services[resp.name].state = "Running"
    /\ services[resp.name].pid # NoChild
    /\ children[services[resp.name].pid] # "alive"

\* C16: a restart(name) that returns success leaves what stop(name) followed by
\* start(name) leaves: name Running and every transitive activation dependency of
\* name started, hence Running.
RestartStartsDependencies ==
    (resp.op = "restart" /\ resp.res = Ok) =>
        /\ services[resp.name].state = "Running"
        /\ \A d \in TransitiveDeps(resp.name) : services[d].state = "Running"

\* C17: at most one daemon is alive at a time, and a daemon that is serving has
\* its socket file in place, whatever daemon starts and CLI auto-starts do.
OneDaemonUndisturbed ==
    /\ Cardinality({d \in Daemons : IsDaemon(host, d)}) <= 1
    /\ \A d \in Daemons : host.daemon[d] = "serving" => host.socket = d

\* C18: a List is answered with one (name, state) pair for every name in the
\* registry, no other pair and no name twice, each with the state its record has;
\* the registry gains a name exactly when a load of it succeeds and never loses
\* one; a load of a name already in the registry fails with ServiceAlreadyExists
\* and changes no record.
ListShowsRegistry ==
    [][/\ resp'.op = "list" =>
            LET v == resp'.services
            IN  /\ Len(v) = Cardinality(DOMAIN services')
                /\ Range(v) = {<<n, services'[n].state>> : n \in DOMAIN services'}
       /\ DOMAIN services \subseteq DOMAIN services'
       /\ DOMAIN services' # DOMAIN services =>
            /\ resp'.op = "load" /\ resp'.res = Ok
            /\ DOMAIN services' = DOMAIN services \cup {resp'.name}
       /\ (resp'.op = "load" /\ resp'.res = Ok) => resp'.name \notin DOMAIN services
       /\ (resp'.op = "load" /\ resp'.name \in DOMAIN services) =>
            /\ resp'.res = Err("ServiceAlreadyExists", resp'.name)
            /\ services' = services]_vars

\* C18 witness: with "a" and "b" loaded (c.service does not parse), "b" Running
\* and "a" Stopped, a List was answered with the two pairs, "b" first.
ListedBoth ==
    /\ resp.op = "list"
    /\ resp.services = <<(<<"b", "Running">>), (<<"a", "Stopped">>)>>
    /\ Loaded = {"a", "b"} /\ "c" \in DOMAIN disk
    /\ services["a"].state = "Stopped" /\ services["b"].state = "Running"

\* C18 witness of the second load: a load of "a", already in the registry, has
\* just failed with ServiceAlreadyExists.
SecondLoadRejected ==
    /\ resp.op = "load" /\ resp.name = "a"
    /\ resp.res = Err("ServiceAlreadyExists", "a")
    /\ "a" \in Loaded

\* C19: a Shutdown is answered with Ok by the step that ends the daemon, nothing is
\* answered once the daemon has ended, a frame that is not a request is answered
\* with an Error and its connection stays open, and a request that fails closes no
\* connection.
ShutdownAndBadFramesAnswered ==
    [][/\ resp'.op = "shutdown" =>
            /\ resp'.res = Ok /\ phase = "serving" /\ phase' = "exited"
       /\ phase = "exited" => resp' = NoResp
       /\ resp'.op = "frame" =>
            /\ resp'.res = InvalidRequest
            /\ conn'[resp'.conn] = Idle
       /\ (resp'.op \in {"start", "stop", "restart", "status"} /\ resp'.res # Ok) =>
            \A c \in Clients : conn[c] # Closed => conn'[c] # Closed]_vars

\* C20: a Start is answered with DependencyCycle only if a cycle of the activation
\* graph can be reached from the target, and the resolution of a target that is
\* loaded with everything below it, none of it on a cycle, never fails.
CycleOnlyWhenCyclic ==
    [][\A t \in Loaded :
          ResolutionAnswered(t) =>
              /\ ~Clean(t)
              /\ resp'.res = DependencyCycle
                    => \E x \in (TransitiveDeps(t) \cup {t}) \cap Loaded :
                          x \in TransitiveDeps(x)]_vars

\* C20 witness: the diamond a -> b, a -> c, b -> d, c -> d was resolved for "a" as
\* d, b, c, a.
DiamondResolved ==
    /\ conn["c1"].op = "start" /\ conn["c1"].name = "a"
    /\ conn["c1"].order = <<"d", "b", "c", "a">>
    /\ DepList("a") = <<"b", "c">> /\ DepList("b") = <<"d">>
    /\ DepList("c") = <<"d">> /\ DepList("d") = <<>>

\* C21: a delayed-restart task that wakes spawns a child only for a record that
\* is Stopped or Failed at that moment; for a record in any other state it changes
\* nothing.
TaskStartsOnlyTerminal ==
    [][\A n \in Loaded :
          (resp'.op = "task" /\ resp'.name = n
              /\ services[n].state \notin {"Stopped", "Failed"})
          => /\ services'[n] = services[n]
             /\ children' = children]_vars

\* A step that runs Service::stop on n from its beginning: a Stop request, or the
\* first half of a Restart.
StopCalledOn(n) ==
    \/ resp'.op = "stop" /\ resp'.name = n /\ conn' = conn
    \/ \E c \in Clients :
          /\ conn[c] = Idle /\ conn'[c].op \in {"stop", "restart"} /\ conn'[c].name = n

\* C22: a record leaves Stopped or Failed only by a start (which sets Starting
\* first), and a record enters Stopped only from Stopping, by a stop (which sets
\* Stopping first), or when a reconciler pass sees the exit of a Running child.
StateMachineFollowed ==
    [][\A n \in Loaded :
          /\ (services[n].state \in {"Stopped", "Failed"}
                  /\ services'[n].state # services[n].state)
                => /\ StartCalledOn(n)
                   /\ services'[n].state \in {"Starting", "Running"}
          /\ (services'[n].state = "Stopped" /\ services[n].state # "Stopped")
                => \/ services[n].state = "Stopping"
                   \/ StopCalledOn(n)
                   \/ resp'.op = "tick" /\ services[n].state = "Running"]_vars

\* C23: no step of a start(t) changes the record or the child of a service outside
\* the transitive Requires and Wants closure of t and t itself, and the resolution
\* step changes nothing at all.
StartTouchesClosureOnly ==
    [][\A c \in Clients :
          /\ (conn[c].op = "start" /\ conn'[c] # conn[c]) =>
                \A n \in Loaded \ (TransitiveDeps(conn[c].name) \cup {conn[c].name}) :
                    /\ services'[n] = services[n]
                    /\ services[n].process # NoChild
                          => children'[services[n].process] = children[services[n].process]
          /\ (conn[c] = Idle /\ (conn'[c].op = "start" \/ (resp'.op = "start" /\ conn' = conn)))
                => services' = services /\ children' = children]_vars

\* C23 witness: Start{a} has returned Ok with "a" and its dependency "b" Running,
\* while "c", which "a" names in After only, is Stopped and has no child.
AfterOnlyLeftAlone ==
    /\ resp.op = "start" /\ resp.name = "a" /\ resp.res = Ok
    /\ services["a"].state = "Running" /\ services["b"].state = "Running"
    /\ ordering_dependencies(services["a"].unit) = <<"c">>
    /\ "c" \notin TransitiveDeps("a")
    /\ services["c"].state = "Stopped" /\ services["c"].process = NoChild

\* C24: in the step that follows the return of stop(s), neither a reconciler pass
\* nor a delayed-restart task starts s: s is still Stopped and has no pid.
StoppedStaysStopped ==
    [][\A n \in Loaded :
          (resp.op = "stop" /\ resp.res = Ok /\ resp.name = n
              /\ resp'.op \in {"tick", "task"})
          => /\ services'[n].state = "Stopped"
             /\ services'[n].pid = NoChild]_vars

\* C25: when a start(name) spawns name's own child, every transitive activation
\* dependency of name is Running.
SpawnFindsDepsRunning ==
    [][\A c \in Clients :
          SpawnsOwnChild(c) =>
              \A d \in TransitiveDeps(conn[c].name) :
                  d \in Loaded /\ services[d].state = "Running"]_vars

\* C26: a reconciler pass leaves the state of a record that is Stopped, Failed or
\* Starting as it is and schedules no restart for it.
TickTouchesOnlyRunning ==
    [][resp'.op = "tick" =>
          \A n \in Loaded :
              services[n].state \in {"Stopped", "Failed", "Starting"}
                  => /\ services'[n].state = services[n].state
                     /\ tasks'[n] = tasks[n]]_vars

\* A step of a stop(n) or of a restart(n), from the request to the response.
StopOrRestartStepOn(n) ==
    \/ StopCalledOn(n)
    \/ \E c \in Clients :
          /\ conn[c].op \in {"stop", "restart"} /\ conn[c].name = n
          /\ conn'[c] # conn[c]

\* C27: no step of a stop(name) or of a restart(name) changes the record or the
\* child of another service.
StopTouchesOwnRecordOnly ==
    [][\A n \in ReqNames :
          StopOrRestartStepOn(n) =>
              \A m \in Loaded \ {n} :
                  /\ services'[m] = services[m]
                  /\ services[m].process # NoChild
                        => children'[services[m].process] = children[services[m].process]]_vars

\* C27 witness: Stop{b} has returned with "b" Stopped and without a child, while
\* "a", which Requires "b", is still Running with its live child.
DependencyStoppedAlone ==
    /\ resp.op = "stop" /\ resp.name = "b" /\ resp.res = Ok
    /\ "b" \in ActivationDeps("a")
    /\ services["b"].state = "Stopped" /\ services["b"].process = NoChild
    /\ services["a"].state = "Running"
    /\ children[services["a"].process] = "alive"

====
